---- MODULE Spec2Model ----
(***************************************************************************)
(* Model of LawArticleChunker (backend/app/rag/ingestion/                  *)
(* law_article_chunker.py): the regex-driven segmentation of one law       *)
(* article into chunks, the citation formatter, the Chinese numeral        *)
(* formatter and the loop of process_files over the records of a batch.    *)
(*                                                                         *)
(* Text is a sequence of characters.  The module is written in ASCII, so   *)
(* every non-ASCII character of the source has an ASCII name:              *)
(*   "NL" newline, "SP" blank,                                             *)
(*   "ling","yi","er","san","si","wu","liu","qi","ba","jiu" the numerals   *)
(*   0..9, "shi" ten, "bai" hundred, "dun" the enumeration comma,          *)
(*   "di" / "tiao" / "zhi" / "xiang" / "kuan" the citation glyphs and      *)
(*   "lao","dong","ji","zhun","fa" the five glyphs of the law title.       *)
(* An optional integer (int | None) is a set with at most one element:     *)
(* {} is None and {k} is the integer k.                                    *)
(***************************************************************************)
EXTENDS Integers, Sequences, FiniteSets, TLC

VARIABLES strategy, article, chunks, pc, n, numeral, hier, citation,
          previous, file_paths, file_idx, article_idx, all_chunks,
          leaf_nodes, nodes, unique_nodes

vars == <<strategy, article, chunks, pc, n, numeral, hier, citation,
          previous, file_paths, file_idx, article_idx, all_chunks,
          leaf_nodes, nodes, unique_nodes>>

---------------------------------------------------------------------------
(* Bounds of the model *)

\* number of segments a content string is put together from
MaxSegs == 3
\* length of the article_no strings handed to the citation formatter
MaxArtLen == 4
\* integers below 0 and above 999 handed to the numeral formatter
NumUnder == 25
NumOver == 25
\* paragraph / subparagraph numbers handed to the citation formatter
MaxOrd == 2

---------------------------------------------------------------------------
(* Characters and strings *)

\* Python's \s and str.strip(): whitespace
IsSpace(c) == c \in {"SP", "NL"}

\* Python's \d and str.isdigit()
IsDigit(c) == c \in {"0", "1", "2", "3", "4", "5", "6", "7", "8", "9"}

\* the character class of sub_pattern
IsCnNum(c) == c \in {"yi", "er", "san", "si", "wu", "liu", "qi", "ba", "jiu", "shi", "bai"}

\* value of one decimal digit character
DigitVal(c) ==
    CASE c = "0" -> 0 [] c = "1" -> 1 [] c = "2" -> 2 [] c = "3" -> 3 [] c = "4" -> 4
      [] c = "5" -> 5 [] c = "6" -> 6 [] c = "7" -> 7 [] c = "8" -> 8 [] c = "9" -> 9

\* int(s) of a non-empty string of digits
RECURSIVE ParseInt(_)
ParseInt(s) ==
    IF Len(s) = 0 THEN 0
    ELSE 10 * ParseInt(SubSeq(s, 1, Len(s) - 1)) + DigitVal(s[Len(s)])

DecChars == <<"0", "1", "2", "3", "4", "5", "6", "7", "8", "9">>

\* str(k) of an integer k >= 0, as the f-strings of chunk_id and n_str compute it
RECURSIVE Dec(_)
Dec(k) ==
    IF k < 10 THEN <<DecChars[k + 1]>>
    ELSE Dec(k \div 10) \o <<DecChars[(k % 10) + 1]>>

\* s.strip()
RECURSIVE LStrip(_)
LStrip(s) ==
    IF Len(s) > 0 /\ IsSpace(s[1]) THEN LStrip(Tail(s)) ELSE s

RECURSIVE RStrip(_)
RStrip(s) ==
    IF Len(s) > 0 /\ IsSpace(s[Len(s)]) THEN RStrip(SubSeq(s, 1, Len(s) - 1)) ELSE s

\* a mutation of Strip: only the leading whitespace goes
StripLeadingOnly(s) == LStrip(s)

Strip(s) == RStrip(LStrip(s))

\* text[a:b] of Python with 0-based a, b turned into 1-based positions:
\* the characters at positions from .. to-1
Slice(text, from, to) == SubSeq(text, from, to - 1)

---------------------------------------------------------------------------
(* The two regular expressions *)

\* first position >= q that holds no whitespace (Len+1 at the end): \s*
RECURSIVE SkipSpace(_, _)
SkipSpace(text, q) ==
    IF q <= Len(text) /\ IsSpace(text[q]) THEN SkipSpace(text, q + 1) ELSE q

\* first position >= q that holds no digit: \d+
RECURSIVE SkipDigits(_, _)
SkipDigits(text, q) ==
    IF q <= Len(text) /\ IsDigit(text[q]) THEN SkipDigits(text, q + 1) ELSE q

\* first position >= q that holds no Chinese numeral: [...]+
RECURSIVE SkipCnNum(_, _)
SkipCnNum(text, q) ==
    IF q <= Len(text) /\ IsCnNum(text[q]) THEN SkipCnNum(text, q + 1) ELSE q

\* \s*\((\d+)\) tried at position q: the position after the match, 0 for no match
NumericBodyAt(text, q) ==
    LET j == SkipSpace(text, q)
        k == SkipDigits(text, j + 1)
    IN  IF j <= Len(text) /\ text[j] = "(" /\ k > j + 1
           /\ k <= Len(text) /\ text[k] = ")"
        THEN k + 1 ELSE 0

\* \s*([...]+)dun tried at position q: the position after the match, 0 for no match
SubBodyAt(text, q) ==
    LET j == SkipSpace(text, q)
        k == SkipCnNum(text, j)
    IN  IF k > j /\ k <= Len(text) /\ text[k] = "dun"
        THEN k + 1 ELSE 0

BodyAt(kind, text, q) ==
    IF kind = "numeric" THEN NumericBodyAt(text, q) ELSE SubBodyAt(text, q)

\* a mutation of MatchEndAt: the pattern without its (?:^|\n), a match can
\* start anywhere
MatchEndAtAnywhere(kind, text, p) == BodyAt(kind, text, p)

\* (?:^|\n) followed by the body, tried with the match starting at position p:
\* the alternative ^ (only at the start of the text) and then the alternative \n
MatchEndAt(kind, text, p) ==
    LET viaStart == IF p = 1 THEN BodyAt(kind, text, p) ELSE 0
        viaNewline == IF p <= Len(text) /\ text[p] = "NL"
                      THEN BodyAt(kind, text, p + 1) ELSE 0
    IN  IF viaStart # 0 THEN viaStart ELSE viaNewline

\* the digits of group(1) of a numeric match that starts at p and ends before e
NumericGroup(text, p, e) ==
    LET close == e - 1
        open == CHOOSE j \in p..close : text[j] = "(" /\ \A i \in p..(j - 1) : IsSpace(text[i])
    IN  SubSeq(text, open + 1, close - 1)

\* list(pattern.finditer(text)) from position pos on: the non-overlapping matches,
\* leftmost first, each [start, end) with end exclusive
RECURSIVE FindIter(_, _, _)
FindIter(kind, text, pos) ==
    IF pos > Len(text) + 1 THEN <<>>
    ELSE LET e == MatchEndAt(kind, text, pos)
         IN  IF e # 0
             THEN <<[start |-> pos, end |-> e]>> \o FindIter(kind, text, e)
             ELSE FindIter(kind, text, pos + 1)

---------------------------------------------------------------------------
(* _convert_to_chinese_numeral *)

\* the result of a call that ended in an exception
Raised == <<"raised">>

\* digits: the ten numerals "ling" .. "jiu"; the source's digits[d] is the
\* (d + 1)-th element here
digits == <<"ling", "yi", "er", "san", "si", "wu", "liu", "qi", "ba", "jiu">>

\* digits[i]: a negative index counts from the end, an index of 10 or more
\* (or below -10) raises IndexError
DigitAt(i) ==
    IF i \in 0..9 THEN <<digits[i + 1]>>
    ELSE IF i \in (0 - 10)..(0 - 1) THEN <<digits[i + 11]>>
    ELSE Raised

\* a mutation of ConvertTeens: the digit of the units is left out
ConvertTeensWithoutUnits(k) == <<"shi">>

\* the branch 10 <= k < 20: "shi" alone for 10, else "shi" + digits[int(n_str[1])]
ConvertTeens(k) ==
    IF k = 10 THEN <<"shi">>
    ELSE <<"shi">> \o DigitAt(DigitVal(Dec(k)[2]))

\* a mutation of ConvertGeneral: no "ling" stands in for an empty tens place
ConvertGeneralNoZero(k) ==
    LET h == k \div 100
        t == (k % 100) \div 10
        u == k % 10
    IN  IF h > 0 /\ DigitAt(h) = Raised THEN Raised
        ELSE (IF h > 0 THEN DigitAt(h) \o <<"bai">> ELSE <<>>)
             \o (IF t = 0 THEN <<>> ELSE DigitAt(t) \o <<"shi">>)
             \o (IF u > 0 THEN DigitAt(u) ELSE <<>>)

\* the general branch, on h = k // 100, t = (k % 100) // 10, u = k % 10
ConvertGeneral(k) ==
    LET h == k \div 100
        t == (k % 100) \div 10
        u == k % 10
        hundreds == IF h > 0 THEN DigitAt(h) \o <<"bai">> ELSE <<>>
        tens == IF t = 0
                THEN (IF h > 0 /\ u > 0 THEN <<"ling">> ELSE <<>>)
                ELSE (IF t = 1 /\ h = 0 THEN <<"shi">> ELSE DigitAt(t) \o <<"shi">>)
        units == IF u > 0 THEN DigitAt(u) ELSE <<>>
    IN  IF h > 0 /\ DigitAt(h) = Raised THEN Raised
        ELSE hundreds \o tens \o units

_convert_to_chinese_numeral(k) ==
    IF k = 0 THEN DigitAt(0)
    ELSE IF 10 <= k /\ k < 20 THEN ConvertTeens(k)
    ELSE ConvertGeneral(k)

---------------------------------------------------------------------------
(* _format_citation_coarse and _format_citation_fine *)

\* the fixed law title that opens every citation
LawTitle == <<"lao", "dong", "ji", "zhun", "fa">>

\* art_str.split("-"): the parts between the hyphens
RECURSIVE SplitHyphen(_)
SplitHyphen(s) ==
    IF \A i \in 1..Len(s) : s[i] # "-" THEN <<s>>
    ELSE LET i == CHOOSE j \in 1..Len(s) : s[j] = "-" /\ \A m \in 1..(j - 1) : s[m] # "-"
         IN  <<SubSeq(s, 1, i - 1)>> \o SplitHyphen(SubSeq(s, i + 1, Len(s)))

\* s.isdigit(), and the strings int(s) accepts
AllDigits(s) == Len(s) > 0 /\ \A i \in 1..Len(s) : IsDigit(s[i])

\* a mutation of ArticleText: the article number is never converted
ArticleTextVerbatim(art_str) == <<"di">> \o art_str \o <<"tiao">>

\* the article part: main_num, sub_num = art_str.split("-") raises unless there
\* are exactly two parts, int() raises on a part that is not a number, and
\* the numeral formatter may raise
ArticleText(art_str) ==
    IF \E i \in 1..Len(art_str) : art_str[i] = "-"
    THEN LET parts == SplitHyphen(art_str)
         IN  IF Len(parts) # 2 \/ ~AllDigits(parts[1]) \/ ~AllDigits(parts[2]) THEN Raised
             ELSE LET main_cn == _convert_to_chinese_numeral(ParseInt(parts[1]))
                      sub_cn == _convert_to_chinese_numeral(ParseInt(parts[2]))
                  IN  IF main_cn = Raised \/ sub_cn = Raised THEN Raised
                      ELSE <<"di">> \o main_cn \o <<"tiao", "zhi">> \o sub_cn
    ELSE IF AllDigits(art_str)
         THEN LET art_cn == _convert_to_chinese_numeral(ParseInt(art_str))
              IN  IF art_cn = Raised THEN Raised ELSE <<"di">> \o art_cn \o <<"tiao">>
         ELSE <<"di">> \o art_str \o <<"tiao">>

\* Python's truth value of an int | None: None and 0 are false
Truthy(opt) == opt # {} /\ opt # {0}

\* the value of an optional integer that is not None
ValueOf(opt) == CHOOSE v \in opt : TRUE

\* "if hierarchy.<field>: title += di + numeral + glyph"
OrdinalSuffix(opt, glyph) ==
    IF Truthy(opt)
    THEN LET cn == _convert_to_chinese_numeral(ValueOf(opt))
         IN  IF cn = Raised THEN Raised ELSE <<"di">> \o cn \o <<glyph>>
    ELSE <<>>

_format_citation_coarse(hierarchy) ==
    LET art_text == ArticleText(hierarchy.article)
        para == OrdinalSuffix(hierarchy.paragraph, "xiang")
    IN  IF art_text = Raised \/ para = Raised THEN Raised
        ELSE LawTitle \o art_text \o para

_format_citation_fine(hierarchy) ==
    LET art_text == ArticleText(hierarchy.article)
        para == OrdinalSuffix(hierarchy.paragraph, "xiang")
        sub == OrdinalSuffix(hierarchy.subparagraph, "kuan")
    IN  IF art_text = Raised \/ para = Raised \/ sub = Raised THEN Raised
        ELSE LawTitle \o art_text \o para \o sub

---------------------------------------------------------------------------
(* The chunker *)

\* a mutation of _split_by_paragraph: para_num is the place of the match
\* in the text (i + 1 of enumerate), not the digits it captured
_split_by_paragraph_by_place(text) ==
    LET matches == FindIter("numeric", text, 1)
    IN  [i \in 1..Len(matches) |->
            LET content_end == IF i < Len(matches) THEN matches[i + 1].start
                               ELSE Len(text) + 1
            IN  [para_num |-> i,
                 text |-> Strip(Slice(text, matches[i].start, content_end)),
                 start_idx |-> matches[i].start,
                 end_idx |-> content_end]]

\* one (para_num, full text, start, end) per match of
\* numeric_pattern; a paragraph runs to the start of the next match
_split_by_paragraph(text) ==
    LET matches == FindIter("numeric", text, 1)
    IN  [i \in 1..Len(matches) |->
            LET content_end == IF i < Len(matches) THEN matches[i + 1].start
                               ELSE Len(text) + 1
            IN  [para_num |-> ParseInt(NumericGroup(text, matches[i].start, matches[i].end)),
                 text |-> Strip(Slice(text, matches[i].start, content_end)),
                 start_idx |-> matches[i].start,
                 end_idx |-> content_end]]

\* base_kwargs of _split_coarse: the fields copied from the article
BaseFields(art) ==
    [url |-> art.url, chapter_no |-> art.chapter_no,
     chapter_title |-> art.chapter_name, article_no |-> art.article_no]

Metadata(base, split_strategy, is_expanded, citation_title, hierarchy) ==
    [url |-> base.url, chapter_no |-> base.chapter_no,
     chapter_title |-> base.chapter_title, article_no |-> base.article_no,
     split_strategy |-> split_strategy, is_expanded |-> is_expanded,
     citation_title |-> citation_title, hierarchy |-> hierarchy]

\* a mutation of CopyWith: the assignment to is_expanded is missing, the
\* copy keeps the flag of the base metadata
CopyWithStaleExpanded(base_metadata, split_strategy, is_expanded, hierarchy, citation_title) ==
    [base_metadata EXCEPT !.split_strategy = split_strategy,
                          !.hierarchy = hierarchy,
                          !.citation_title = citation_title]

\* a mutation of CopyWith: the assignment to citation_title is missing, the
\* copy keeps the empty title of the base metadata
CopyWithStaleCitation(base_metadata, split_strategy, is_expanded, hierarchy, citation_title) ==
    [base_metadata EXCEPT !.split_strategy = split_strategy,
                          !.is_expanded = is_expanded,
                          !.hierarchy = hierarchy]

\* base_metadata.model_copy() followed by the four assignments to the copy
CopyWith(base_metadata, split_strategy, is_expanded, hierarchy, citation_title) ==
    [base_metadata EXCEPT !.split_strategy = split_strategy,
                          !.is_expanded = is_expanded,
                          !.hierarchy = hierarchy,
                          !.citation_title = citation_title]

\* a mutation of LawChunk: the chunk's own id is stored as its parent id
LawChunkOwnIdAsParent(chunk_id, parent_id, text, metadata) ==
    [chunk_id |-> chunk_id, parent_id |-> chunk_id, text |-> text, metadata |-> metadata]

\* LawChunkCoarse(chunk_id=, parent_id=, text=, metadata=) and LawChunkFine(...)
LawChunk(chunk_id, parent_id, text, metadata) ==
    [chunk_id |-> chunk_id, parent_id |-> parent_id, text |-> text, metadata |-> metadata]

\* a mutation of SubIdAt: the index of enumerate is taken as it is
SubIdAtZeroBased(i) == i - 1

\* current_sub_id = i + 1 for the i of enumerate, which counts from 0 where
\* the indices of a sequence count from 1
SubIdAt(i) == i

\* the chunk of match i in the contextual branch of _process_subparagraphs_fine
FineItemChunk(text, parent_id, article_no, base_metadata, para_num, matches, i) ==
    LET preamble == Strip(Slice(text, 1, matches[1].start))
        content_end == IF i < Len(matches) THEN matches[i + 1].start ELSE Len(text) + 1
        item_text == Strip(Slice(text, matches[i].start, content_end))
        current_sub_id == SubIdAt(i)
        new_hierarchy == [article |-> article_no, paragraph |-> para_num,
                          subparagraph |-> {current_sub_id}]
    IN  LawChunk(IF Truthy(para_num)
                      THEN parent_id \o <<"_", "P">> \o Dec(ValueOf(para_num))
                                     \o <<"_", "S">> \o Dec(current_sub_id)
                      ELSE parent_id \o <<"_", "S">> \o Dec(current_sub_id),
                 parent_id,
                 preamble \o item_text,
                 CopyWith(base_metadata,
                               IF Truthy(para_num) THEN "numeric_contextual" ELSE "contextual",
                               TRUE, new_hierarchy, _format_citation_fine(new_hierarchy)))

\* the chunk of the fallback branch of _process_subparagraphs_fine
FineWholeChunk(text, parent_id, article_no, base_metadata, para_num) ==
    LET new_hierarchy == [article |-> article_no,
                          paragraph |-> IF Truthy(para_num) THEN para_num ELSE {},
                          subparagraph |-> {}]
    IN  LawChunk(IF Truthy(para_num)
                      THEN parent_id \o <<"_", "P">> \o Dec(ValueOf(para_num))
                      ELSE parent_id,
                 parent_id,
                 Strip(text),
                 CopyWith(base_metadata,
                               IF Truthy(para_num) THEN "numeric" ELSE "atomic",
                               FALSE, new_hierarchy, _format_citation_fine(new_hierarchy)))

\* a mutation of _process_subparagraphs_fine: an item with nothing after its
\* marker is skipped
_process_subparagraphs_fine_skipping_bare(text, parent_id, article_no, base_metadata, para_num) ==
    LET matches == FindIter("sub", text, 1)
        items == [i \in 1..Len(matches) |->
                    FineItemChunk(text, parent_id, article_no, base_metadata, para_num, matches, i)]
        HasBody(c) == Len(c.text) > Len(Strip(Slice(text, 1, matches[1].start))) + 2
    IN  IF Len(matches) > 0
        THEN SelectSeq(items, HasBody)
        ELSE <<FineWholeChunk(text, parent_id, article_no, base_metadata, para_num)>>

_process_subparagraphs_fine(text, parent_id, article_no, base_metadata, para_num) ==
    LET matches == FindIter("sub", text, 1)
    IN  IF Len(matches) > 0
        THEN [i \in 1..Len(matches) |->
                FineItemChunk(text, parent_id, article_no, base_metadata, para_num, matches, i)]
        ELSE <<FineWholeChunk(text, parent_id, article_no, base_metadata, para_num)>>

\* a mutation of ExtendFrom: the chunks of a paragraph are put in front of
\* the chunks gathered so far
RECURSIVE ExtendFromPrepending(_, _, _, _, _)
ExtendFromPrepending(paragraphs, i, parent_id, article_no, base_metadata) ==
    IF i > Len(paragraphs) THEN <<>>
    ELSE ExtendFromPrepending(paragraphs, i + 1, parent_id, article_no, base_metadata)
         \o _process_subparagraphs_fine(paragraphs[i].text, parent_id, article_no,
                                       base_metadata, {paragraphs[i].para_num})

\* chunks.extend(sub_chunks) over the paragraphs from the i-th on
RECURSIVE ExtendFrom(_, _, _, _, _)
ExtendFrom(paragraphs, i, parent_id, article_no, base_metadata) ==
    IF i > Len(paragraphs) THEN <<>>
    ELSE _process_subparagraphs_fine(paragraphs[i].text, parent_id, article_no,
                                  base_metadata, {paragraphs[i].para_num})
         \o ExtendFrom(paragraphs, i + 1, parent_id, article_no, base_metadata)

_split_recursive_fine(text, parent_id, article_no, base_metadata) ==
    LET paragraphs == _split_by_paragraph(text)
    IN  IF Len(paragraphs) > 0
        THEN ExtendFrom(paragraphs, 1, parent_id, article_no, base_metadata)
        ELSE _process_subparagraphs_fine(text, parent_id, article_no, base_metadata, {})

\* the base metadata holds an empty citation_title and the
\* hierarchy of the bare article until a chunk's copy overwrites them
_split_fine(art) ==
    LET hierarchy == [article |-> art.article_no, paragraph |-> {}, subparagraph |-> {}]
        metadata == Metadata(BaseFields(art), "atomic", FALSE, <<>>, hierarchy)
    IN  _split_recursive_fine(art.content, art.id, art.article_no, metadata)

\* one chunk of the paragraph branch of _split_coarse
CoarseParagraphChunk(art, para) ==
    LET hierarchy == [article |-> art.article_no, paragraph |-> {para.para_num}]
    IN  LawChunk(art.id \o <<"_", "P">> \o Dec(para.para_num),
                 art.id,
                 para.text,
                 Metadata(BaseFields(art), "numeric", FALSE,
                               _format_citation_coarse(hierarchy), hierarchy))

\* a mutation of CoarseAtomicChunk: the content is stored as it is, without strip()
CoarseAtomicChunkUnstripped(art) ==
    LET hierarchy == [article |-> art.article_no, paragraph |-> {}]
    IN  LawChunk(art.id,
                 art.id,
                 art.content,
                 Metadata(BaseFields(art), "atomic", FALSE,
                               _format_citation_coarse(hierarchy), hierarchy))

\* the chunk of the atomic branch of _split_coarse
CoarseAtomicChunk(art) ==
    LET hierarchy == [article |-> art.article_no, paragraph |-> {}]
    IN  LawChunk(art.id,
                 art.id,
                 Strip(art.content),
                 Metadata(BaseFields(art), "atomic", FALSE,
                               _format_citation_coarse(hierarchy), hierarchy))

\* a mutation of _split_coarse: the paragraphs go through sub-item detection
_split_coarse_via_fine(art) == _split_fine(art)

_split_coarse(art) ==
    LET paragraphs == _split_by_paragraph(art.content)
    IN  IF Len(paragraphs) > 0
        THEN [i \in 1..Len(paragraphs) |-> CoarseParagraphChunk(art, paragraphs[i])]
        ELSE <<CoarseAtomicChunk(art)>>

\* a citation that raised ends the whole call: no chunk list is returned
AnyRaised(cs) == \E i \in 1..Len(cs) : cs[i].metadata.citation_title = Raised

---------------------------------------------------------------------------
(* Inputs *)

\* the pieces a content string is put together from: ordinary text, blanks,
\* newlines, "(n)" markers in the middle of a line and at the start of one
\* (with the digits 1, 2, 0 and 1000), enumeration markers in the middle of a
\* line and at the start of one, a numbered paragraph that opens with an
\* enumeration marker, and a "(1" that is never closed
Segments ==
    { <<"x">>, <<"SP">>, <<"NL">>,
      <<"(", "1", ")">>, <<"NL", "(", "1", ")">>, <<"NL", "(", "2", ")">>,
      <<"NL", "(", "0", ")">>, <<"NL", "(", "1", "0", "0", "0", ")">>,
      <<"yi", "dun">>, <<"NL", "yi", "dun">>,
      <<"NL", "(", "2", ")", "NL", "yi", "dun">>,
      <<"NL", "(", "1">> }

RECURSIVE Flatten(_)
Flatten(ss) == IF Len(ss) = 0 THEN <<>> ELSE Head(ss) \o Flatten(Tail(ss))

Contents == { Flatten(ss) : ss \in UNION { [1..k -> Segments] : k \in 0..MaxSegs } }

\* RawLawArticle records without their content: an article with a plain
\* number and an amendment article, as in the tests
ArticleHeads ==
    { [id |-> <<"L", "S", "A", "-", "5">>, article_no |-> <<"5">>,
       chapter_no |-> {1}, chapter_name |-> "general", url |-> "flno=5"],
      [id |-> <<"L", "S", "A", "-", "8", "4", "-", "2">>, article_no |-> <<"8", "4", "-", "2">>,
       chapter_no |-> {}, chapter_name |-> "none", url |-> "flno=84-2"] }

WithContent(head, content) ==
    [id |-> head.id, article_no |-> head.article_no, chapter_no |-> head.chapter_no,
     chapter_name |-> head.chapter_name, url |-> head.url, content |-> content]

Articles == { WithContent(head, content) : head \in ArticleHeads, content \in Contents }

Strategies == {"PARENT_CHILD_FINE", "PARENT_CHILD_COARSE"}

NoArticle == WithContent(CHOOSE head \in ArticleHeads : TRUE, <<>>)

NoHierarchy == [article |-> <<>>, paragraph |-> {}]

\* article_no strings for the citation formatter
ArtChars == {"0", "1", "-", "a"}

ArtStrings ==
    UNION { [1..k -> ArtChars] : k \in 1..MaxArtLen }
    \cup { <<"5">>, <<"2", "3">>, <<"7", "9">>, <<"8", "4", "-", "2">> }

Optional(S) == {{}} \cup { {v} : v \in S }

HierarchiesFine ==
    [article : ArtStrings, paragraph : Optional(0..MaxOrd), subparagraph : Optional(1..MaxOrd)]

HierarchiesCoarse == [article : ArtStrings, paragraph : Optional(0..MaxOrd)]

---------------------------------------------------------------------------
(* parse_article on one article, called any number of times *)

\* what the call before the last one left behind, before any call
NoCall ==
    [pc |-> "ready", chunks |-> <<>>, article |-> NoArticle, strategy |-> "PARENT_CHILD_FINE"]

\* process_files is not running
NoBatch ==
    /\ file_paths = <<>>
    /\ file_idx = 1
    /\ article_idx = 1
    /\ all_chunks = <<>>

\* neither the indexing loader nor the retriever's postprocessor is running
NoIndexing ==
    /\ leaf_nodes = <<>>
    /\ nodes = <<>>
    /\ unique_nodes = <<>>

Init ==
    /\ strategy \in Strategies
    /\ article \in Articles
    /\ chunks = <<>>
    /\ pc = "ready"
    /\ n = 0
    /\ numeral = <<>>
    /\ hier = NoHierarchy
    /\ citation = <<>>
    /\ previous = NoCall
    /\ NoBatch
    /\ NoIndexing

\* a mutation of Return: the chunker keeps the chunks of its calls and
\* returns the list it has accumulated
ReturnAccumulated(cs) ==
    IF AnyRaised(cs)
    THEN /\ pc' = "raised"
         /\ chunks' = <<>>
    ELSE /\ pc' = "done"
         /\ chunks' = chunks \o cs

\* the outcome of a call that computed the chunk list cs
Return(cs) ==
    IF AnyRaised(cs)
    THEN /\ pc' = "raised"
         /\ chunks' = <<>>
    ELSE /\ pc' = "done"
         /\ chunks' = cs

\* what a call finds: the outcome of the call before it, the article it is
\* handed and the strategy of the chunker
Found == [pc |-> pc, chunks |-> chunks, article |-> article, strategy |-> strategy]

\* parse_article with self.strategy == "PARENT_CHILD_COARSE"; the method
\* assigns to no attribute of the chunker or of the article, and the same
\* chunker can be called again
ParseArticleCoarse ==
    /\ strategy = "PARENT_CHILD_COARSE"
    /\ Return(_split_coarse(article))
    /\ previous' = Found
    /\ UNCHANGED <<strategy, article, n, numeral, hier, citation>>
    /\ UNCHANGED <<file_paths, file_idx, article_idx, all_chunks>>
    /\ UNCHANGED <<leaf_nodes, nodes, unique_nodes>>

\* parse_article with any other strategy
ParseArticleFine ==
    /\ strategy # "PARENT_CHILD_COARSE"
    /\ Return(_split_fine(article))
    /\ previous' = Found
    /\ UNCHANGED <<strategy, article, n, numeral, hier, citation>>
    /\ UNCHANGED <<file_paths, file_idx, article_idx, all_chunks>>
    /\ UNCHANGED <<leaf_nodes, nodes, unique_nodes>>

Next == ParseArticleCoarse \/ ParseArticleFine

Spec == Init /\ [][Next]_vars

---------------------------------------------------------------------------
(* _convert_to_chinese_numeral on one integer *)

\* the largest integer the numeral formatter is written for
MaxNumeral == 999

InitNumeral ==
    /\ strategy = "PARENT_CHILD_FINE"
    /\ article = NoArticle
    /\ chunks = <<>>
    /\ pc = "ready"
    /\ n \in (0 - NumUnder)..(MaxNumeral + NumOver)
    /\ numeral = <<>>
    /\ hier = NoHierarchy
    /\ citation = <<>>
    /\ previous = NoCall
    /\ NoBatch
    /\ NoIndexing

ConvertNumeral ==
    /\ pc = "ready"
    /\ numeral' = _convert_to_chinese_numeral(n)
    /\ pc' = IF numeral' = Raised THEN "raised" ELSE "done"
    /\ UNCHANGED <<strategy, article, chunks, n, hier, citation>>
    /\ UNCHANGED <<previous, file_paths, file_idx, article_idx, all_chunks>>
    /\ UNCHANGED <<leaf_nodes, nodes, unique_nodes>>

NextNumeral == ConvertNumeral

SpecNumeral == InitNumeral /\ [][NextNumeral]_vars

---------------------------------------------------------------------------
(* the citation formatters on one hierarchy *)

InitCitation ==
    /\ strategy \in Strategies
    /\ article = NoArticle
    /\ chunks = <<>>
    /\ pc = "ready"
    /\ n = 0
    /\ numeral = <<>>
    /\ hier \in IF strategy = "PARENT_CHILD_COARSE" THEN HierarchiesCoarse ELSE HierarchiesFine
    /\ citation = <<>>
    /\ previous = NoCall
    /\ NoBatch
    /\ NoIndexing

FormatCoarse ==
    /\ pc = "ready"
    /\ strategy = "PARENT_CHILD_COARSE"
    /\ citation' = _format_citation_coarse(hier)
    /\ pc' = IF citation' = Raised THEN "raised" ELSE "done"
    /\ UNCHANGED <<strategy, article, chunks, n, numeral, hier>>
    /\ UNCHANGED <<previous, file_paths, file_idx, article_idx, all_chunks>>
    /\ UNCHANGED <<leaf_nodes, nodes, unique_nodes>>

FormatFine ==
    /\ pc = "ready"
    /\ strategy # "PARENT_CHILD_COARSE"
    /\ citation' = _format_citation_fine(hier)
    /\ pc' = IF citation' = Raised THEN "raised" ELSE "done"
    /\ UNCHANGED <<strategy, article, chunks, n, numeral, hier>>
    /\ UNCHANGED <<previous, file_paths, file_idx, article_idx, all_chunks>>
    /\ UNCHANGED <<leaf_nodes, nodes, unique_nodes>>

NextCitation == FormatCoarse \/ FormatFine

SpecCitation == InitCitation /\ [][NextCitation]_vars

---------------------------------------------------------------------------
(* process_files on a batch of files *)

\* number of files handed to process_files
MaxFiles == 2

\* parse_article as a function of the chunker's strategy and the article; a
\* chunk whose citation is Raised stands for a call that raised
parse_article(self_strategy, art) ==
    IF self_strategy = "PARENT_CHILD_COARSE" THEN _split_coarse(art) ELSE _split_fine(art)

\* the fields RawLawArticle declares without a default
RequiredFields == {"id", "article_no", "content", "url"}

\* RawLawArticle(**article_dict) raises a validation error when a required
\* field is missing
Validates(article_dict) == RequiredFields \subseteq DOMAIN article_dict

\* RawLawArticle(**article_dict) of a record that validates: chapter_no and
\* chapter_name default to None
RawLawArticle(article_dict) ==
    [id |-> article_dict.id,
     article_no |-> article_dict.article_no,
     chapter_no |-> IF "chapter_no" \in DOMAIN article_dict THEN article_dict.chapter_no ELSE {},
     chapter_name |-> IF "chapter_name" \in DOMAIN article_dict THEN article_dict.chapter_name
                      ELSE "none",
     url |-> article_dict.url,
     content |-> article_dict.content]

\* a mutation of Extend: the list is replaced by the chunks of the article
ExtendOverwrites(list, more) == more

\* all_chunks.extend(chunks)
Extend(list, more) == list \o more

\* the records of the files: an article without sub-structure, an amendment
\* article with two numbered paragraphs of which the first has a sub-item
\* (its record has no chapter fields), a record without content, and an
\* article with a "(1000)" paragraph
PlainRecord ==
    [id |-> <<"L", "S", "A", "-", "5">>, article_no |-> <<"5">>, chapter_no |-> {1},
     chapter_name |-> "general", url |-> "flno=5", content |-> <<"x">>]

NestedRecord ==
    [id |-> <<"L", "S", "A", "-", "8", "4", "-", "2">>, article_no |-> <<"8", "4", "-", "2">>,
     url |-> "flno=84-2",
     content |-> <<"(", "1", ")", "x", "NL", "yi", "dun", "x", "NL", "(", "2", ")", "x">>]

RecordWithoutContent ==
    [id |-> <<"L", "S", "A", "-", "5">>, article_no |-> <<"5">>, chapter_no |-> {1},
     chapter_name |-> "general", url |-> "flno=5"]

RecordThatRaises ==
    [id |-> <<"L", "S", "A", "-", "5">>, article_no |-> <<"5">>, chapter_no |-> {1},
     chapter_name |-> "general", url |-> "flno=5",
     content |-> <<"NL", "(", "1", "0", "0", "0", ")">>]

\* what json.load returns for the files of a batch: a file without the
\* "articles" key, files with none, one and several records
JsonFiles ==
    { [title |-> "law"],
      [title |-> "law", articles |-> <<>>],
      [title |-> "law", articles |-> <<PlainRecord>>],
      [title |-> "law", articles |-> <<NestedRecord>>],
      [title |-> "law", articles |-> <<NestedRecord, PlainRecord>>],
      [title |-> "law", articles |-> <<PlainRecord, RecordWithoutContent, NestedRecord>>],
      [title |-> "law", articles |-> <<PlainRecord, RecordThatRaises>>],
      [title |-> "law", articles |-> <<RecordThatRaises, NestedRecord>>] }

InitBatch ==
    /\ strategy \in Strategies
    /\ article = NoArticle
    /\ chunks = <<>>
    /\ pc = "ready"
    /\ n = 0
    /\ numeral = <<>>
    /\ hier = NoHierarchy
    /\ citation = <<>>
    /\ previous = NoCall
    /\ file_paths \in UNION { [1..k -> JsonFiles] : k \in 0..MaxFiles }
    /\ file_idx = 1
    /\ article_idx = 1
    /\ all_chunks = <<>>
    /\ NoIndexing

\* the file the loop over file_paths is at has records left to read
AtArticle ==
    /\ pc = "ready"
    /\ file_idx <= Len(file_paths)
    /\ "articles" \in DOMAIN file_paths[file_idx]
    /\ article_idx <= Len(file_paths[file_idx].articles)

\* an exception leaves process_files: nothing is returned, and all_chunks
\* goes with the call
Abort ==
    /\ pc' = "raised"
    /\ all_chunks' = <<>>
    /\ UNCHANGED <<article, chunks, article_idx>>

\* one pass of the loop over articles_data: the record is built, segmented
\* and its chunks are added to all_chunks; a record that does not validate
\* and a segmentation that raises end process_files
ReadArticle ==
    /\ AtArticle
    /\ LET article_dict == file_paths[file_idx].articles[article_idx]
       IN  IF ~Validates(article_dict) THEN Abort
           ELSE IF AnyRaised(parse_article(strategy, RawLawArticle(article_dict))) THEN Abort
           ELSE /\ article' = RawLawArticle(article_dict)
                /\ chunks' = parse_article(strategy, article')
                /\ all_chunks' = Extend(all_chunks, chunks')
                /\ article_idx' = article_idx + 1
                /\ pc' = pc
    /\ UNCHANGED <<strategy, n, numeral, hier, citation, previous, file_paths, file_idx>>
    /\ UNCHANGED <<leaf_nodes, nodes, unique_nodes>>

\* the loop over articles_data has ended: on to the next file
EndOfArticles ==
    /\ pc = "ready"
    /\ file_idx <= Len(file_paths)
    /\ "articles" \in DOMAIN file_paths[file_idx]
    /\ article_idx > Len(file_paths[file_idx].articles)
    /\ file_idx' = file_idx + 1
    /\ article_idx' = 1
    /\ UNCHANGED <<strategy, article, chunks, pc, n, numeral, hier, citation, previous>>
    /\ UNCHANGED <<file_paths, all_chunks>>
    /\ UNCHANGED <<leaf_nodes, nodes, unique_nodes>>

\* a file without the "articles" key: nothing is added
SkipFileWithoutArticles ==
    /\ pc = "ready"
    /\ file_idx <= Len(file_paths)
    /\ "articles" \notin DOMAIN file_paths[file_idx]
    /\ file_idx' = file_idx + 1
    /\ UNCHANGED <<strategy, article, chunks, pc, n, numeral, hier, citation, previous>>
    /\ UNCHANGED <<file_paths, article_idx, all_chunks>>
    /\ UNCHANGED <<leaf_nodes, nodes, unique_nodes>>

\* return all_chunks
ReturnAllChunks ==
    /\ pc = "ready"
    /\ file_idx > Len(file_paths)
    /\ pc' = "done"
    /\ UNCHANGED <<strategy, article, chunks, n, numeral, hier, citation, previous>>
    /\ UNCHANGED <<file_paths, file_idx, article_idx, all_chunks>>
    /\ UNCHANGED <<leaf_nodes, nodes, unique_nodes>>

NextBatch == ReadArticle \/ EndOfArticles \/ SkipFileWithoutArticles \/ ReturnAllChunks

SpecBatch == InitBatch /\ [][NextBatch]_vars

---------------------------------------------------------------------------
(* load_parent_child_data: the files are segmented, then one node is made  *)
(* for every chunk                                                          *)

\* the position in all_chunks at which the parent id of the i-th chunk is
\* met first: where its key enters chunks_by_parent
FirstOfParent(cs, i) ==
    CHOOSE j \in 1..i : /\ cs[j].parent_id = cs[i].parent_id
                        /\ \A k \in 1..(j - 1) : cs[k].parent_id # cs[i].parent_id

\* chunk k is visited before chunk i by the loops over chunks_by_parent.items()
\* and over children_chunks: keys in the order they were inserted, the chunks
\* of a key in the order they were appended
VisitedBefore(cs, k, i) ==
    \/ FirstOfParent(cs, k) < FirstOfParent(cs, i)
    \/ FirstOfParent(cs, k) = FirstOfParent(cs, i) /\ k < i

\* the chunks in the order the two loops visit them
chunks_by_parent(cs) ==
    [r \in 1..Len(cs) |->
        cs[CHOOSE i \in 1..Len(cs) :
              Cardinality({k \in 1..Len(cs) : VisitedBefore(cs, k, i)}) = r - 1]]

\* a mutation of chunk_node_id: the check for the collision is missing
chunk_node_id_unchecked(chunk, parent_id) == chunk.chunk_id

\* chunk_node_id = chunk.chunk_id, and f"{chunk_node_id}_chunk" when it
\* equals parent_id
chunk_node_id(chunk, parent_id) ==
    IF chunk.chunk_id = parent_id
    THEN chunk.chunk_id \o <<"_", "c", "h", "u", "n", "k">>
    ELSE chunk.chunk_id

\* the dictionary child_metadata after the entries whose value is None have
\* been filtered out; hierarchy.subparagraph is read with getattr, a Coarse
\* hierarchy has none
child_metadata(chunk, parent_id) ==
    LET meta == chunk.metadata
        hierarchy == meta.hierarchy
        subparagraph_val ==
            IF "subparagraph" \in DOMAIN hierarchy THEN hierarchy.subparagraph ELSE {}
        unfiltered ==
            [chunk_id |-> chunk_node_id(chunk, parent_id),
             parent_id |-> parent_id,
             chunk_text |-> chunk.text,
             split_strategy |-> meta.split_strategy,
             is_expanded |-> meta.is_expanded,
             article_no |-> hierarchy.article,
             paragraph_no |-> hierarchy.paragraph,
             subparagraph_no |-> subparagraph_val,
             citation_title |-> meta.citation_title,
             url |-> meta.url]
        is_none == (IF hierarchy.paragraph = {} THEN {"paragraph_no"} ELSE {})
                       \cup (IF subparagraph_val = {} THEN {"subparagraph_no"} ELSE {})
    IN  [k \in (DOMAIN unfiltered) \ is_none |-> unfiltered[k]]

\* "\n".join(content_parts): the citation title when there is one, then the
\* text of the chunk behind its label
formatted_text(chunk) ==
    LET content == <<"tiao", "wen", "nei", "rong", ":">> \o chunk.text
    IN  IF chunk.metadata.citation_title # <<>>
        THEN chunk.metadata.citation_title \o <<"NL">> \o content
        ELSE content

\* TextNode(text=formatted_text, id_=chunk_node_id, metadata=child_metadata)
TextNode(chunk) ==
    [id_ |-> chunk_node_id(chunk, chunk.parent_id),
     text |-> formatted_text(chunk),
     metadata |-> child_metadata(chunk, chunk.parent_id)]

\* the files of LAW_FILES that exist and the chunker of the version's strategy
InitLoader == InitBatch

\* the loop over LAW_FILES has ended: the chunks are grouped by parent_id and
\* a node is appended to leaf_nodes for every chunk of every group
CreateNodes ==
    /\ pc = "ready"
    /\ file_idx > Len(file_paths)
    /\ leaf_nodes' = [r \in 1..Len(all_chunks) |-> TextNode(chunks_by_parent(all_chunks)[r])]
    /\ pc' = "indexed"
    /\ UNCHANGED <<strategy, article, chunks, n, numeral, hier, citation, previous>>
    /\ UNCHANGED <<file_paths, file_idx, article_idx, all_chunks, nodes, unique_nodes>>

NextLoader == ReadArticle \/ EndOfArticles \/ SkipFileWithoutArticles \/ CreateNodes

SpecLoader == InitLoader /\ [][NextLoader]_vars

---------------------------------------------------------------------------
(* ArticleDedupPostprocessor._postprocess_nodes on one list of scored nodes *)

\* length of the node list handed to the postprocessor
MaxNodes == 3

\* the scores of the nodes
Scores == {1, 2}

\* the metadata of the nodes: an article_id (naive index), a parent_id
\* (parent-child index, as the loader writes it), an empty article_id beside
\* a parent_id, both keys, and neither
NodeMetadatas ==
    { [article_id |-> PlainRecord.id],
      [parent_id |-> PlainRecord.id],
      [parent_id |-> NestedRecord.id],
      [article_id |-> <<>>, parent_id |-> NestedRecord.id],
      [article_id |-> PlainRecord.id, parent_id |-> NestedRecord.id],
      [chunk_text |-> <<"x">>] }

NodeWithScore == [node : [metadata : NodeMetadatas], score : Scores]

\* metadata.get(key): the value, or None
MetadataGet(metadata, key) == IF key \in DOMAIN metadata THEN {metadata[key]} ELSE {}

\* the truth value of an optional string: None and "" are false
TruthyStr(opt) == opt # {} /\ opt # {<<>>}

\* node.node.metadata.get("article_id") or node.node.metadata.get("parent_id")
art_id_of(node) ==
    IF TruthyStr(MetadataGet(node.node.metadata, "article_id"))
    THEN MetadataGet(node.node.metadata, "article_id")
    ELSE MetadataGet(node.node.metadata, "parent_id")

\* the loop over nodes from the i-th node on, with unique_nodes and
\* seen_articles as the passes before have left them
RECURSIVE DedupLoop(_, _, _, _)
DedupLoop(ns, i, unique, seen_articles) ==
    IF i > Len(ns) THEN unique
    ELSE LET art_id == art_id_of(ns[i])
         IN  IF ~TruthyStr(art_id)
             THEN DedupLoop(ns, i + 1, Append(unique, ns[i]), seen_articles)
             ELSE IF art_id \cap seen_articles = {}
             THEN DedupLoop(ns, i + 1, Append(unique, ns[i]), seen_articles \cup art_id)
             ELSE DedupLoop(ns, i + 1, unique, seen_articles)

_postprocess_nodes(ns) == DedupLoop(ns, 1, <<>>, {})

InitDedup ==
    /\ strategy = "PARENT_CHILD_FINE"
    /\ article = NoArticle
    /\ chunks = <<>>
    /\ pc = "ready"
    /\ n = 0
    /\ numeral = <<>>
    /\ hier = NoHierarchy
    /\ citation = <<>>
    /\ previous = NoCall
    /\ NoBatch
    /\ leaf_nodes = <<>>
    /\ nodes \in UNION { [1..k -> NodeWithScore] : k \in 0..MaxNodes }
    /\ unique_nodes = <<>>

PostprocessNodes ==
    /\ pc = "ready"
    /\ unique_nodes' = _postprocess_nodes(nodes)
    /\ pc' = "done"
    /\ UNCHANGED <<strategy, article, chunks, n, numeral, hier, citation, previous>>
    /\ UNCHANGED <<file_paths, file_idx, article_idx, all_chunks, leaf_nodes, nodes>>

NextDedup == PostprocessNodes

SpecDedup == InitDedup /\ [][NextDedup]_vars

---------------------------------------------------------------------------
(* What the claims are stated with: the markers of a text and the trimmed  *)
(* spans between them, said directly rather than by a scan                  *)

Blank(c) == c = "SP" \/ c = "NL"

\* the text without its leading and trailing whitespace
Trimmed(s) ==
    LET solid == { i \in 1..Len(s) : ~Blank(s[i]) }
    IN  IF solid = {} THEN <<>>
        ELSE SubSeq(s, CHOOSE a \in solid : \A i \in solid : a <= i,
                       CHOOSE b \in solid : \A i \in solid : i <= b)

\* "(" digits ")" stands at position j
ParenNumberAt(text, j) ==
    /\ text[j] = "("
    /\ \E k \in (j + 2)..Len(text) :
          /\ text[k] = ")"
          /\ \A i \in (j + 1)..(k - 1) : text[i] \in {"0", "1", "2", "3", "4", "5", "6", "7", "8", "9"}

\* Chinese numerals followed by the enumeration comma stand at position j
EnumeratorAt(text, j) ==
    \E k \in (j + 1)..Len(text) :
       /\ text[k] = "dun"
       /\ \A i \in j..(k - 1) :
             text[i] \in {"yi", "er", "san", "si", "wu", "liu", "qi", "ba", "jiu", "shi", "bai"}

\* a marker can begin at p: p is the start of the text or a newline, and only
\* whitespace lies between p and the marker
MarkerCanBeginAt(kind, text, p) ==
    /\ p \in 1..Len(text)
    /\ (p = 1 \/ text[p] = "NL")
    /\ \E j \in p..Len(text) :
          /\ \A i \in p..(j - 1) : Blank(text[i])
          /\ IF kind = "numeric" THEN ParenNumberAt(text, j) ELSE EnumeratorAt(text, j)

\* the positions where the markers of a text begin: a position inside the
\* whitespace that leads an earlier marker in begins no marker of its own
MarkerStarts(kind, text) ==
    { p \in 1..Len(text) :
        /\ MarkerCanBeginAt(kind, text, p)
        /\ ~\E q \in 1..(p - 1) :
              MarkerCanBeginAt(kind, text, q) /\ \A i \in q..p : Blank(text[i]) }

\* the k-th smallest element of a set of integers
Kth(S, k) == CHOOSE x \in S : Cardinality({ y \in S : y < x }) = k - 1

\* the stretch of text of the k-th marker: from its start to the next marker
SpanOf(kind, text, k) ==
    LET starts == MarkerStarts(kind, text)
        to == IF k < Cardinality(starts) THEN Kth(starts, k + 1) - 1 ELSE Len(text)
    IN  SubSeq(text, Kth(starts, k), to)

\* the scopes of sub-item detection: the trimmed numbered paragraphs, or the
\* whole content when it has no numbered paragraph
ScopesOf(content) ==
    LET np == Cardinality(MarkerStarts("numeric", content))
    IN  IF np = 0 THEN <<content>>
        ELSE [k \in 1..np |-> Trimmed(SpanOf("numeric", content, k))]

\* what the Fine policy is to emit for one scope: one expanded text per
\* sub-item, or the scope as a whole
ExpectedOfScope(scope) ==
    LET ns == Cardinality(MarkerStarts("sub", scope))
        first == Kth(MarkerStarts("sub", scope), 1)
    IN  IF ns = 0 THEN <<[item |-> FALSE, text |-> Trimmed(scope)]>>
        ELSE [k \in 1..ns |->
                [item |-> TRUE,
                 text |-> Trimmed(SubSeq(scope, 1, first - 1))
                          \o Trimmed(SpanOf("sub", scope, k))]]

RECURSIVE ExpectedFineFrom(_, _)
ExpectedFineFrom(scopes, k) ==
    IF k > Len(scopes) THEN <<>>
    ELSE ExpectedOfScope(scopes[k]) \o ExpectedFineFrom(scopes, k + 1)

ExpectedFine(content) == ExpectedFineFrom(ScopesOf(content), 1)

Contains(s, part) ==
    \E i \in 1..(Len(s) - Len(part) + 1) : SubSeq(s, i, i + Len(part) - 1) = part

StartsWith(s, part) == Len(part) <= Len(s) /\ SubSeq(s, 1, Len(part)) = part

IsFine == strategy # "PARENT_CHILD_COARSE"

Has(h, f) == f \in DOMAIN h /\ h[f] # {}

---------------------------------------------------------------------------
(* Claims *)

\* C1: the chunk_ids of the chunks parse_article returns for one article are
\* pairwise distinct, whatever the content and under either policy.
ChunkIdsPairwiseDistinct ==
    pc = "done" =>
        \A i, j \in 1..Len(chunks) : i # j => chunks[i].chunk_id # chunks[j].chunk_id

\* C2: every chunk parse_article returns, under either policy and on every
\* branch, has parent_id equal to the id of the article it was cut from.
ParentIdIsArticleId ==
    pc = "done" => \A i \in 1..Len(chunks) : chunks[i].parent_id = article.id

\* C2 witness: a Fine result of the amendment article holding a
\* numeric_contextual chunk and a numeric chunk
ParentIdWitness ==
    /\ pc = "done" /\ IsFine /\ Len(article.id) > 5
    /\ \E i, j \in 1..Len(chunks) :
          /\ chunks[i].metadata.split_strategy = "numeric_contextual"
          /\ chunks[j].metadata.split_strategy = "numeric"

\* the id the chunk-id rule gives for a parent id and a hierarchy
IdOfHierarchy(parent_id, h) ==
    parent_id
    \o (IF Has(h, "paragraph") THEN <<"_", "P">> \o Dec(CHOOSE v \in h.paragraph : TRUE) ELSE <<>>)
    \o (IF Has(h, "subparagraph") THEN <<"_", "S">> \o Dec(CHOOSE v \in h.subparagraph : TRUE)
        ELSE <<>>)

\* C3: every chunk_id is parent_id, followed by "_P{paragraph}" when the
\* chunk's hierarchy has a paragraph, followed by "_S{subparagraph}" when it
\* has a subparagraph.
ChunkIdBuiltFromHierarchy ==
    pc = "done" =>
        \A i \in 1..Len(chunks) :
            chunks[i].chunk_id = IdOfHierarchy(chunks[i].parent_id, chunks[i].metadata.hierarchy)

\* C4: under the Fine policy the strategy of a chunk is decided by whether the
\* article has a numbered paragraph and whether the chunk is a sub-item:
\* numeric_contextual, contextual, numeric, and atomic only for an article in
\* which no marker was found.
FineStrategyByMarkers ==
    (pc = "done" /\ IsFine) =>
        LET numbered == MarkerStarts("numeric", article.content) # {}
        IN  \A i \in 1..Len(chunks) :
                chunks[i].metadata.split_strategy =
                    IF Has(chunks[i].metadata.hierarchy, "subparagraph")
                    THEN (IF numbered THEN "numeric_contextual" ELSE "contextual")
                    ELSE (IF numbered THEN "numeric" ELSE "atomic")

\* C5: under the Fine policy the text of every subparagraph chunk is the
\* trimmed text of its scope before the scope's first sub-item marker,
\* followed with no separator by the trimmed span of its item (so the chunks
\* of one scope share the preamble), and inside a numbered paragraph it
\* begins with the paragraph's "(n)".
FineItemTextIsPreamblePlusItem ==
    (pc = "done" /\ IsFine) =>
        LET expected == ExpectedFine(article.content)
        IN  /\ Len(chunks) = Len(expected)
            /\ \A i \in 1..Len(chunks) :
                  /\ Has(chunks[i].metadata.hierarchy, "subparagraph") <=> expected[i].item
                  /\ expected[i].item =>
                        /\ chunks[i].text = expected[i].text
                        /\ Has(chunks[i].metadata.hierarchy, "paragraph") =>
                              ParenNumberAt(chunks[i].text, 1)

\* C5 witness: two sub-item chunks of one scope with a preamble in front
FineItemTextWitness ==
    /\ pc = "done" /\ IsFine /\ Len(chunks) = 2
    /\ chunks[1].metadata.hierarchy.subparagraph = {1}
    /\ chunks[2].metadata.hierarchy.subparagraph = {2}
    /\ chunks[1].text = <<"x", "yi", "dun">>
    /\ chunks[2].text = <<"x", "yi", "dun">>

\* C6: under the Coarse policy there is exactly one chunk per numbered
\* paragraph marker, or one for the whole article; each holds the whole
\* trimmed paragraph (its sub-item markers included), is tagged numeric or
\* atomic, is not expanded, has no subparagraph slot and no "_S" in its id.
CoarseNeverSplitsSubItems ==
    (pc = "done" /\ ~IsFine) =>
        LET scopes == ScopesOf(article.content)
            numbered == MarkerStarts("numeric", article.content) # {}
        IN  /\ Len(chunks) = Len(scopes)
            /\ \A i \in 1..Len(chunks) :
                  /\ chunks[i].text = Trimmed(scopes[i])
                  /\ chunks[i].metadata.split_strategy = IF numbered THEN "numeric" ELSE "atomic"
                  /\ chunks[i].metadata.is_expanded = FALSE
                  /\ "subparagraph" \notin DOMAIN chunks[i].metadata.hierarchy
                  /\ ~Contains(chunks[i].chunk_id, <<"_", "S">>)

\* C6 witness: a Coarse chunk of a numbered paragraph that keeps a sub-item
\* marker the Fine policy would split at
CoarseWitness ==
    /\ pc = "done" /\ ~IsFine
    /\ \E i \in 1..Len(chunks) :
          /\ chunks[i].metadata.split_strategy = "numeric"
          /\ MarkerStarts("sub", chunks[i].text) # {}

---------------------------------------------------------------------------
(* The numeral rule and the citation parts the claims are stated with *)

Glyph(d) ==
    CASE d = 0 -> "ling" [] d = 1 -> "yi" [] d = 2 -> "er" [] d = 3 -> "san" [] d = 4 -> "si"
      [] d = 5 -> "wu" [] d = 6 -> "liu" [] d = 7 -> "qi" [] d = 8 -> "ba" [] d = 9 -> "jiu"

\* the numeral of k in 0..999 by the rule of the specification
RuleNumeral(k) ==
    LET hundreds == k \div 100
        tens == (k \div 10) % 10
        units == k % 10
    IN  IF k = 0 THEN <<"ling">>
        ELSE IF k >= 10 /\ k <= 19
             THEN <<"shi">> \o (IF units # 0 THEN <<Glyph(units)>> ELSE <<>>)
        ELSE (IF hundreds > 0 THEN <<Glyph(hundreds), "bai">> ELSE <<>>)
             \o (IF tens > 0 THEN <<Glyph(tens), "shi">>
                 ELSE IF hundreds > 0 /\ units > 0 THEN <<"ling">> ELSE <<>>)
             \o (IF units > 0 THEN <<Glyph(units)>> ELSE <<>>)

DigitChars == {"0", "1", "2", "3", "4", "5", "6", "7", "8", "9"}

IsNumber(s) == Len(s) > 0 /\ \A i \in 1..Len(s) : s[i] \in DigitChars

\* the value of a string of decimal digits, most significant digit first
RECURSIVE ValueFrom(_, _, _)
ValueFrom(s, i, acc) ==
    IF i > Len(s) THEN acc
    ELSE ValueFrom(s, i + 1, 10 * acc + (CHOOSE d \in 0..9 : DecChars[d + 1] = s[i]))

Value(s) == ValueFrom(s, 1, 0)

Hyphens(s) == { i \in 1..Len(s) : s[i] = "-" }

\* digits-digits: one hyphen with a number on either side
IsAmendmentNumber(s) ==
    /\ Cardinality(Hyphens(s)) = 1
    /\ LET i == CHOOSE j \in Hyphens(s) : TRUE
       IN  IsNumber(SubSeq(s, 1, i - 1)) /\ IsNumber(SubSeq(s, i + 1, Len(s)))

MainOf(s) == Value(SubSeq(s, 1, (CHOOSE j \in Hyphens(s) : TRUE) - 1))

SubOf(s) == Value(SubSeq(s, (CHOOSE j \in Hyphens(s) : TRUE) + 1, Len(s)))

Range(s) == { s[i] : i \in 1..Len(s) }

\* the citation is the title, the article part and nothing else when the
\* hierarchy has neither a paragraph nor a subparagraph, and begins with
\* them otherwise
CitationOpensWith(part) ==
    /\ pc = "done"
    /\ StartsWith(citation, LawTitle \o part)
    /\ (~Has(hier, "paragraph") /\ ~Has(hier, "subparagraph")) => citation = LawTitle \o part

\* C7: the article part of a citation is "di{main}tiao zhi{sub}" with both
\* numbers as Chinese numerals for an article digits-digits, "di{n}tiao" with
\* n as a Chinese numeral for a purely numeric article, and "di{article}tiao"
\* verbatim, without failing, for any other article without a hyphen; the
\* fixed law title comes first.  (Numbers are within 0..999, the numeral
\* formatter's domain.)
CitationArticlePart ==
    pc # "ready" =>
        LET a == hier.article
        IN  /\ (IsAmendmentNumber(a) /\ MainOf(a) <= MaxNumeral /\ SubOf(a) <= MaxNumeral) =>
                  CitationOpensWith(<<"di">> \o RuleNumeral(MainOf(a)) \o <<"tiao", "zhi">>
                                    \o RuleNumeral(SubOf(a)))
            /\ (IsNumber(a) /\ Value(a) <= MaxNumeral) =>
                  CitationOpensWith(<<"di">> \o RuleNumeral(Value(a)) \o <<"tiao">>)
            /\ (Hyphens(a) = {} /\ ~IsNumber(a)) =>
                  CitationOpensWith(<<"di">> \o a \o <<"tiao">>)

\* C7 witness: the amendment article 84-2 of the tests, cited as
\* "di ba-shi-si tiao zhi er"
CitationArticleWitness ==
    /\ pc = "done"
    /\ hier.article = <<"8", "4", "-", "2">>
    /\ ~Has(hier, "paragraph") /\ ~Has(hier, "subparagraph")
    /\ citation = LawTitle \o <<"di", "ba", "shi", "si", "tiao", "zhi", "er">>

\* the positions of a glyph in a citation
PositionsOf(c, glyph) == { i \in 1..Len(c) : c[i] = glyph }

\* the citation c carries the part "di{number}glyph" exactly when the field is present
PartIffPresent(c, h, field, glyph) ==
    /\ Has(h, field) <=> glyph \in Range(c)
    /\ Has(h, field) =>
          Contains(c, <<"di">> \o RuleNumeral(CHOOSE v \in h[field] : TRUE) \o <<glyph>>)

\* C8: a citation holds "di{paragraph}xiang" exactly when the hierarchy has a
\* paragraph and "di{subparagraph}kuan" exactly when it has a subparagraph,
\* the xiang part before the kuan part.
CitationSuffixPerPresentField ==
    pc = "done" =>
        \A i \in 1..Len(chunks) :
            LET c == chunks[i].metadata.citation_title
                h == chunks[i].metadata.hierarchy
            IN  /\ PartIffPresent(c, h, "paragraph", "xiang")
                /\ PartIffPresent(c, h, "subparagraph", "kuan")
                /\ \A x \in PositionsOf(c, "xiang") : \A k \in PositionsOf(c, "kuan") : x < k

\* C9: for 0 <= n <= 999 the numeral formatter returns the numeral of the
\* rule; in particular 1, 10, 11, 20, 23, 84, 79, 100 give yi, shi, shi-yi,
\* er-shi, er-shi-san, ba-shi-si, qi-shi-jiu, yi-bai.
NumeralFollowsRule ==
    (pc # "ready" /\ n >= 0 /\ n <= MaxNumeral) =>
        /\ pc = "done"
        /\ numeral = RuleNumeral(n)
        /\ n = 1 => numeral = <<"yi">>
        /\ n = 10 => numeral = <<"shi">>
        /\ n = 11 => numeral = <<"shi", "yi">>
        /\ n = 20 => numeral = <<"er", "shi">>
        /\ n = 23 => numeral = <<"er", "shi", "san">>
        /\ n = 84 => numeral = <<"ba", "shi", "si">>
        /\ n = 79 => numeral = <<"qi", "shi", "jiu">>
        /\ n = 100 => numeral = <<"yi", "bai">>

\* C9 witness: 105, whose numeral needs the inserted "ling"
NumeralWitness ==
    pc = "done" /\ n = 105 /\ numeral = <<"yi", "bai", "ling", "wu">>

\* C10: a call of the numeral formatter with n < 0 or n >= 1000 ends in an
\* error and returns no numeral.
NumeralOutOfDomainRaises ==
    (pc # "ready" /\ (n < 0 \/ n > MaxNumeral)) => pc = "raised"

---------------------------------------------------------------------------
(* Claims on the ordinals of the address *)

\* the number of chunks the Fine policy emits for one scope
ChunksOfScope(scope) ==
    LET ns == Cardinality(MarkerStarts("sub", scope))
    IN  IF ns = 0 THEN 1 ELSE ns

\* for every chunk of a Fine result in order, the number (from 1) of the scope
\* it was cut from and its rank (from 1) among the chunks of that scope
RECURSIVE PlacesFrom(_, _)
PlacesFrom(scopes, k) ==
    IF k > Len(scopes) THEN <<>>
    ELSE [r \in 1..ChunksOfScope(scopes[k]) |-> [scope |-> k, rank |-> r]]
         \o PlacesFrom(scopes, k + 1)

Places(content) == PlacesFrom(ScopesOf(content), 1)

\* the number (from 1) of the numbered-paragraph marker chunk i was cut from
MarkerNoIn(places, i) == IF IsFine THEN places[i].scope ELSE i

MarkerNoOf(i) == MarkerNoIn(Places(article.content), i)

DeclaredNumber(content, k) ==
    LET st == Kth(MarkerStarts("numeric", content), k)
        open == CHOOSE j \in st..Len(content) :
                    content[j] = "(" /\ \A q \in st..(j - 1) : Blank(content[q])
        close == CHOOSE c \in (open + 1)..Len(content) :
                    content[c] = ")" /\ \A q \in (open + 1)..(c - 1) : content[q] \in DigitChars
    IN  Value(SubSeq(content, open + 1, close - 1))

\* the digits that follow "_P" in a chunk_id, <<>> when it has no "_P" part
PDigitsOf(chunk_id, parent_id) ==
    LET from == Len(parent_id) + 3
        run == { e \in from..Len(chunk_id) : \A q \in from..e : chunk_id[q] \in DigitChars }
    IN  IF StartsWith(chunk_id, parent_id \o <<"_", "P">>)
        THEN SubSeq(chunk_id, from, from + Cardinality(run) - 1)
        ELSE <<>>

EndsWith(s, part) ==
    Len(part) <= Len(s) /\ SubSeq(s, Len(s) - Len(part) + 1, Len(s)) = part

\* the chunk_id ends with "_S" and digits that spell k
IdEndsWithSub(chunk_id, k) ==
    \E j \in 1..(Len(chunk_id) - 2) :
        /\ chunk_id[j] = "_" /\ chunk_id[j + 1] = "S"
        /\ IsNumber(SubSeq(chunk_id, j + 2, Len(chunk_id)))
        /\ Value(SubSeq(chunk_id, j + 2, Len(chunk_id))) = k

\* C12: under the Fine policy the chunk of the i-th sub-item marker of a scope
\* (i from 0, in source order) has subparagraph i+1 in its hierarchy, at the
\* end of its chunk_id and at the end of its citation, whatever numeral the
\* marker is written with; the count starts again at 1 in every numbered
\* paragraph, and a chunk that is not a sub-item has no subparagraph.
SubOrdinalByEncounterInScope ==
    (pc = "done" /\ IsFine) =>
        LET scopes == ScopesOf(article.content)
            places == Places(article.content)
        IN  /\ Len(chunks) = Len(places)
            /\ \A i \in 1..Len(chunks) :
                  LET h == chunks[i].metadata.hierarchy
                  IN  IF MarkerStarts("sub", scopes[places[i].scope]) # {}
                      THEN /\ h.subparagraph = {places[i].rank}
                           /\ IdEndsWithSub(chunks[i].chunk_id, places[i].rank)
                           /\ EndsWith(chunks[i].metadata.citation_title,
                                       <<"di">> \o RuleNumeral(places[i].rank) \o <<"kuan">>)
                      ELSE /\ ~Has(h, "subparagraph")
                           /\ ~Contains(chunks[i].chunk_id, <<"_", "S">>)

\* C12 witness: two numbered paragraphs with sub-items: the second marker of
\* the first paragraph, written "yi" like the first, is sub-item 2, and the
\* first marker of the second paragraph is sub-item 1 again
SubOrdinalWitness ==
    /\ pc = "done" /\ IsFine /\ Len(chunks) = 3
    /\ chunks[1].metadata.hierarchy.subparagraph = {1}
    /\ chunks[2].metadata.hierarchy.subparagraph = {2}
    /\ chunks[3].metadata.hierarchy.subparagraph = {1}
    /\ Places(article.content)[2].scope = 1
    /\ Places(article.content)[3].scope = 2
    /\ EndsWith(chunks[2].chunk_id, <<"_", "S", "2">>)
    /\ EndsWith(chunks[3].chunk_id, <<"_", "S", "1">>)

---------------------------------------------------------------------------
(* Claims on degenerate and malformed content *)

\* an optional ordinal is absent or a positive integer
AbsentOrPositive(h, f) == Has(h, f) => \A v \in h[f] : v > 0

\* C13: in every emitted chunk hierarchy.paragraph is absent or a positive
\* integer and hierarchy.subparagraph is absent or a positive integer; a
\* subparagraph is set only on the chunk of an enumerated item (Fine policy),
\* a paragraph only on a chunk of a numbered block, and a chunk with neither
\* is the whole-article atomic chunk, the only chunk of its article.
HierarchySlotsTellTheOrigin ==
    pc = "done" =>
        \A i \in 1..Len(chunks) :
            LET h == chunks[i].metadata.hierarchy
            IN  /\ AbsentOrPositive(h, "paragraph")
                /\ AbsentOrPositive(h, "subparagraph")
                /\ Has(h, "subparagraph") =>
                      /\ IsFine
                      /\ MarkerStarts("sub", ScopesOf(article.content)[MarkerNoOf(i)]) # {}
                /\ Has(h, "paragraph") => MarkerStarts("numeric", article.content) # {}
                /\ (~Has(h, "paragraph") /\ ~Has(h, "subparagraph")) =>
                      /\ Len(chunks) = 1
                      /\ chunks[i].metadata.split_strategy = "atomic"
                      /\ chunks[i].chunk_id = article.id
                      /\ chunks[i].text = Trimmed(article.content)

\* C14: whatever markers, malformed or partial, the content of an article
\* with a valid article_no holds, parse_article under either policy returns a
\* non-empty chunk list and does not raise.
NoContentAbortsParsing ==
    pc # "ready" => (pc = "done" /\ Len(chunks) >= 1)

\* the stretches of a text between blanks: the maximal runs of characters
\* that are not whitespace
SolidRuns(text) ==
    { SubSeq(text, ab[1], ab[2]) : ab \in
        { ab \in (1..Len(text)) \X (1..Len(text)) :
            /\ ab[1] <= ab[2]
            /\ \A q \in ab[1]..ab[2] : ~Blank(text[q])
            /\ (ab[1] = 1 \/ Blank(text[ab[1] - 1]))
            /\ (ab[2] = Len(text) \/ Blank(text[ab[2] + 1])) } }

\* C15: no text of the article is lost: every stretch of the content that is
\* not whitespace, the text in front of the first numbered-paragraph marker
\* included, stands in the text of at least one emitted chunk, under either
\* policy.
NoTextOfTheArticleIsLost ==
    pc = "done" =>
        \A run \in SolidRuns(article.content) :
            \E i \in 1..Len(chunks) : Contains(chunks[i].text, run)

\* the content is empty or holds nothing but whitespace
IsBlankContent(content) == \A q \in 1..Len(content) : Blank(content[q])

\* C16: for an article whose content is empty or only whitespace,
\* parse_article under either policy does not raise and returns exactly one
\* chunk: atomic, with empty text, with the article id as chunk_id and not
\* expanded.
BlankContentGivesOneEmptyAtomicChunk ==
    (pc # "ready" /\ IsBlankContent(article.content)) =>
        /\ pc = "done"
        /\ Len(chunks) = 1
        /\ chunks[1].metadata.split_strategy = "atomic"
        /\ chunks[1].text = <<>>
        /\ chunks[1].chunk_id = article.id
        /\ chunks[1].metadata.is_expanded = FALSE

\* C16 witness: a content of blanks and newlines, where a marker could begin
\* after each newline and none does
BlankContentWitness ==
    /\ pc = "done"
    /\ Len(article.content) = 3
    /\ IsBlankContent(article.content)
    /\ "NL" \in Range(article.content) /\ "SP" \in Range(article.content)
    /\ Len(chunks) = 1 /\ chunks[1].text = <<>>

---------------------------------------------------------------------------
(* Claims on repeated calls and on batches *)

RECURSIVE RecordsFrom(_, _)
RecordsFrom(files, k) ==
    IF k > Len(files) THEN <<>>
    ELSE (IF "articles" \in DOMAIN files[k] THEN files[k].articles ELSE <<>>)
         \o RecordsFrom(files, k + 1)

RecordsOf(files) == RecordsFrom(files, 1)

\* the record can be built and its segmentation does not raise
Healthy(article_dict) ==
    /\ Validates(article_dict)
    /\ ~AnyRaised(parse_article(strategy, RawLawArticle(article_dict)))

\* the chunk lists of the records from the k-th on, each segmented alone, one
\* after the other
RECURSIVE FanInFrom(_, _)
FanInFrom(records, k) ==
    IF k > Len(records) THEN <<>>
    ELSE parse_article(strategy, RawLawArticle(records[k])) \o FanInFrom(records, k + 1)

\* C18: a failure on one article of a batch (a malformed record, or an
\* article whose segmentation raises) does not abort the batch:
\* process_files returns, and what it returns holds the chunks of every
\* other article of the batch.
BatchSurvivesAFailingArticle ==
    pc \in {"done", "raised"} =>
        /\ pc = "done"
        /\ all_chunks = FanInFrom(SelectSeq(RecordsOf(file_paths), Healthy), 1)

\* the number of chunks of the records before the k-th, each segmented alone
RECURSIVE ChunksBefore(_, _)
ChunksBefore(records, k) ==
    IF k <= 1 THEN 0
    ELSE ChunksBefore(records, k - 1)
         + Len(parse_article(strategy, RawLawArticle(records[k - 1])))

\* C19: the flat list process_files returns is the chunk lists of its
\* articles one after the other, and the stretch of it that belongs to an
\* article is parse_article of that article alone, whatever other articles
\* the batch holds and wherever in the batch the article stands.
FlatListIsFanInOfArticles ==
    pc = "done" =>
        LET records == RecordsOf(file_paths)
        IN  /\ Len(all_chunks) = ChunksBefore(records, Len(records) + 1)
            /\ \A k \in 1..Len(records) :
                  SubSeq(all_chunks, ChunksBefore(records, k) + 1, ChunksBefore(records, k + 1))
                      = parse_article(strategy, RawLawArticle(records[k]))

\* C19 witness: a returned batch of two files in which the nested article
\* stands once before and once after the plain one
FanInWitness ==
    /\ pc = "done"
    /\ Len(file_paths) = 2
    /\ RecordsOf(file_paths) = <<NestedRecord, PlainRecord, NestedRecord>>
    /\ Len(all_chunks) > 3
    /\ all_chunks[1].chunk_id = all_chunks[Len(all_chunks) - 1].chunk_id

---------------------------------------------------------------------------
(* Claims on the number of chunks *)

\* the untrimmed spans of the content: from each numbered-paragraph marker to
\* the next, or the whole content when it has no such marker
SpansOf(content) ==
    LET np == Cardinality(MarkerStarts("numeric", content))
    IN  IF np = 0 THEN <<content>> ELSE [k \in 1..np |-> SpanOf("numeric", content, k)]

\* the sum over the spans from the k-th on of max(1, number of sub-item markers)
RECURSIVE ChunkCountFrom(_, _)
ChunkCountFrom(spans, k) ==
    IF k > Len(spans) THEN 0
    ELSE (LET ns == Cardinality(MarkerStarts("sub", spans[k]))
          IN  IF ns > 1 THEN ns ELSE 1)
         + ChunkCountFrom(spans, k + 1)

\* C20: under the Fine policy the number of chunks of an article is the sum,
\* over its numbered-paragraph spans (or over the whole content when it has no
\* paragraph marker), of max(1, number of sub-item markers in the span): every
\* marker yields its chunk, also when nothing stands between it and the next
\* marker, and a chunk of a numbered paragraph opens with the paragraph's
\* own "(n)".
NoChunkIsDropped ==
    (pc = "done" /\ IsFine) =>
        /\ Len(chunks) = ChunkCountFrom(SpansOf(article.content), 1)
        /\ MarkerStarts("numeric", article.content) # {} =>
              LET places == Places(article.content)
              IN  \A i \in 1..Len(chunks) :
                      /\ ParenNumberAt(chunks[i].text, 1)
                      /\ DeclaredNumber(chunks[i].text, 1)
                            = DeclaredNumber(article.content, MarkerNoIn(places, i))

\* C20 witness: markers with nothing between them: a paragraph "(2)" of two
\* bare sub-item markers followed by a bare "(1)"
NoChunkIsDroppedWitness ==
    /\ pc = "done" /\ IsFine
    /\ Len(chunks) = 3
    /\ chunks[1].text = <<"(", "2", ")", "yi", "dun">>
    /\ chunks[2].text = <<"(", "2", ")", "yi", "dun">>
    /\ chunks[3].text = <<"(", "1", ")">>

---------------------------------------------------------------------------
(* Claims on the metadata of a chunk *)

\* chunk i of a Fine result is the chunk of an enumerated item: the scope it
\* was cut from holds a sub-item marker
IsItemChunk(scopes, places, i) ==
    /\ IsFine
    /\ MarkerStarts("sub", scopes[places[i].scope]) # {}

\* C21: is_expanded is true exactly for the chunks whose text is a contextual
\* expansion (the preamble prepended to an enumerated item; split_strategy
\* contextual or numeric_contextual) and false for every atomic and numeric
\* chunk, under both policies.
ExpandedIffContextual ==
    pc = "done" =>
        LET scopes == ScopesOf(article.content)
            places == Places(article.content)
        IN  \A i \in 1..Len(chunks) :
                /\ chunks[i].metadata.is_expanded
                      <=> chunks[i].metadata.split_strategy \in {"contextual", "numeric_contextual"}
                /\ chunks[i].metadata.is_expanded <=> IsItemChunk(scopes, places, i)
                /\ chunks[i].metadata.split_strategy \in {"atomic", "numeric"}
                      => ~chunks[i].metadata.is_expanded

\* C21 witness: a Fine result with an expanded sub-item chunk and a numeric
\* chunk that is not expanded
ExpandedWitness ==
    /\ pc = "done" /\ IsFine /\ Len(chunks) = 2
    /\ chunks[1].metadata.split_strategy = "numeric_contextual"
    /\ chunks[1].metadata.is_expanded
    /\ chunks[2].metadata.split_strategy = "numeric"
    /\ ~chunks[2].metadata.is_expanded

\* the citation formatter of the policy in force
FormatterOf(h) == IF IsFine THEN _format_citation_fine(h) ELSE _format_citation_coarse(h)

\* C22: the metadata of every chunk passes url, chapter_no, chapter_title
\* (the article's chapter_name) and article_no through unchanged, its
\* hierarchy.article is the article's article_no, and its citation_title is
\* the citation formatter applied to the chunk's own hierarchy; the empty
\* citation_title of the base metadata reaches no chunk.
MetadataPassesArticleFieldsThrough ==
    pc = "done" =>
        \A i \in 1..Len(chunks) :
            LET m == chunks[i].metadata
            IN  /\ m.url = article.url
                /\ m.chapter_no = article.chapter_no
                /\ m.chapter_title = article.chapter_name
                /\ m.article_no = article.article_no
                /\ m.hierarchy.article = article.article_no
                /\ m.citation_title = FormatterOf(m.hierarchy)
                /\ m.citation_title # <<>>
                /\ StartsWith(m.citation_title, LawTitle)

\* C22 witness: a sub-item chunk of the amendment article, which has no
\* chapter, with the title of its own address
MetadataWitness ==
    /\ pc = "done" /\ IsFine /\ Len(chunks) >= 2
    /\ article.article_no = <<"8", "4", "-", "2">>
    /\ chunks[2].metadata.chapter_no = {}
    /\ chunks[2].metadata.url = "flno=84-2"
    /\ chunks[2].metadata.hierarchy.subparagraph = {2}
    /\ EndsWith(chunks[2].metadata.citation_title, <<"di", "er", "kuan">>)

---------------------------------------------------------------------------
(* Claims on the order of the chunks *)

\* the positions of the content where the text of a chunk begins: under
\* Coarse the numbered-paragraph markers; under Fine the sub-item markers of
\* a span that has some and the start of a span that has none; position 1
\* for an article that is not split
CutPoints(content) ==
    LET starts == MarkerStarts("numeric", content)
        SubsOf(from, span) == { from - 1 + p : p \in MarkerStarts("sub", span) }
        CutsOf(from, span) ==
            IF IsFine /\ SubsOf(from, span) # {} THEN SubsOf(from, span) ELSE {from}
    IN  IF starts = {} THEN CutsOf(1, content)
        ELSE UNION { CutsOf(Kth(starts, k), SpanOf("numeric", content, k)) :
                        k \in 1..Cardinality(starts) }

\* the piece of the content that begins at a cut point: up to the next of
\* the bounds, which are the cut points and the numbered-paragraph markers
PieceAt(content, bounds, cut) ==
    LET later == { b \in bounds : b > cut }
    IN  SubSeq(content, cut,
               IF later = {} THEN Len(content) ELSE Kth(later, 1) - 1)

\* chunks i and i + 1 are sub-item chunks of one numbered paragraph (or of
\* an article without numbered paragraphs)
SameScope(cuts, starts, i) ==
    /\ Has(chunks[i].metadata.hierarchy, "subparagraph")
    /\ Has(chunks[i + 1].metadata.hierarchy, "subparagraph")
    /\ \A b \in starts : ~(Kth(cuts, i) < b /\ b <= Kth(cuts, i + 1))

\* C23: the chunk list of an article is in the order of the source: the i-th
\* chunk ends with the piece of the content at the i-th cut point, so the
\* chunks of a numbered paragraph come before those of the next, and within
\* one scope the sub-item chunks are numbered in the order met.
ChunksInSourceOrder ==
    pc = "done" =>
        LET cuts == CutPoints(article.content)
            starts == MarkerStarts("numeric", article.content)
        IN  /\ Len(chunks) = Cardinality(cuts)
            /\ \A i \in 1..Len(chunks) :
                  EndsWith(chunks[i].text,
                           Trimmed(PieceAt(article.content, cuts \cup starts, Kth(cuts, i))))
            /\ \A i \in 1..(Len(chunks) - 1) :
                  SameScope(cuts, starts, i) =>
                      \A v \in chunks[i].metadata.hierarchy.subparagraph :
                          chunks[i + 1].metadata.hierarchy.subparagraph = {v + 1}

\* C23 witness: a numbered paragraph followed by a numbered paragraph with a
\* sub-item, emitted in that order
SourceOrderWitness ==
    /\ pc = "done" /\ IsFine /\ Len(chunks) = 2
    /\ chunks[1].text = <<"(", "1", ")", "x">>
    /\ chunks[2].text = <<"(", "2", ")", "yi", "dun">>
    /\ ~Has(chunks[1].metadata.hierarchy, "subparagraph")
    /\ chunks[2].metadata.hierarchy.subparagraph = {1}

\* C24: every chunk cut from a numbered paragraph carries the declared
\* number: its hierarchy.paragraph is the value of the digits inside the
\* "(n)" marker of its paragraph, and its text begins with that marker,
\* under both policies.
ParagraphIsDeclaredNumber ==
    (pc = "done" /\ MarkerStarts("numeric", article.content) # {}) =>
        \A i \in 1..Len(chunks) :
            LET declared == DeclaredNumber(article.content, MarkerNoOf(i))
            IN  /\ chunks[i].metadata.hierarchy.paragraph = {declared}
                /\ ParenNumberAt(chunks[i].text, 1)
                /\ DeclaredNumber(chunks[i].text, 1) = declared

---------------------------------------------------------------------------
\* the ids of the articles the files hold
ArticleIds == { RecordsOf(file_paths)[k].id : k \in 1..Len(RecordsOf(file_paths)) }

RenameSuffix == <<"_", "c", "h", "u", "n", "k">>

\* the j-th node is a node of the i-th chunk: it carries the chunk's text and
\* parent id, and its id is the chunk's id, with the suffix when the chunk's
\* id is its parent id
NodeIsOf(j, i) ==
    /\ leaf_nodes[j].metadata.chunk_text = all_chunks[i].text
    /\ leaf_nodes[j].metadata.parent_id = all_chunks[i].parent_id
    /\ leaf_nodes[j].id_ = IF all_chunks[i].chunk_id = all_chunks[i].parent_id
                           THEN all_chunks[i].chunk_id \o RenameSuffix
                           ELSE all_chunks[i].chunk_id

\* the chunks at i and k cannot be told apart by id, parent id and text
SameChunk(i, k) ==
    /\ all_chunks[k].chunk_id = all_chunks[i].chunk_id
    /\ all_chunks[k].parent_id = all_chunks[i].parent_id
    /\ all_chunks[k].text = all_chunks[i].text

\* C25: the indexing loader makes exactly one node for every chunk; the
\* node's id is the chunk_id, except that a chunk whose chunk_id equals its
\* parent_id gets chunk_id + "_chunk". So no node id equals the id of its
\* article, the node's parent_id metadata is the article id, and the node ids
\* of one article are pairwise distinct whenever its chunk_ids were.
LoaderRenamesTheAtomicCase ==
    pc = "indexed" =>
        /\ Len(leaf_nodes) = Len(all_chunks)
        /\ \A i \in 1..Len(all_chunks) :
              Cardinality({j \in 1..Len(leaf_nodes) : NodeIsOf(j, i)})
                  = Cardinality({k \in 1..Len(all_chunks) : SameChunk(i, k)})
        /\ \A j \in 1..Len(leaf_nodes) :
              /\ leaf_nodes[j].metadata.parent_id \in ArticleIds
              /\ StartsWith(leaf_nodes[j].id_, leaf_nodes[j].metadata.parent_id)
              /\ leaf_nodes[j].id_ # leaf_nodes[j].metadata.parent_id
        /\ \A p \in ArticleIds :
              LET of_chunks == {i \in 1..Len(all_chunks) : all_chunks[i].parent_id = p}
                  of_nodes == {j \in 1..Len(leaf_nodes) : leaf_nodes[j].metadata.parent_id = p}
              IN  (\A i, k \in of_chunks : i # k => all_chunks[i].chunk_id # all_chunks[k].chunk_id)
                      => \A j, l \in of_nodes : j # l => leaf_nodes[j].id_ # leaf_nodes[l].id_

\* C25 witness: the loader has made nodes of a renamed atomic chunk and of
\* chunks that keep their ids, an article has several chunks with distinct
\* chunk_ids, and the grouping by parent has moved a node away from the
\* place of its chunk
LoaderWitness ==
    /\ pc = "indexed"
    /\ \E j \in 1..Len(leaf_nodes) : EndsWith(leaf_nodes[j].id_, RenameSuffix)
    /\ \E j \in 1..Len(leaf_nodes) : ~EndsWith(leaf_nodes[j].id_, RenameSuffix)
    /\ \E p \in ArticleIds :
          LET of_chunks == {i \in 1..Len(all_chunks) : all_chunks[i].parent_id = p}
          IN  /\ Cardinality(of_chunks) > 1
              /\ \A i, k \in of_chunks : i # k => all_chunks[i].chunk_id # all_chunks[k].chunk_id
    /\ \E i \in 1..Len(all_chunks) : ~NodeIsOf(i, i)

---------------------------------------------------------------------------
\* the article id a scored node carries: its article_id, else its parent_id,
\* an empty one counting as none
CarriedId(scored) ==
    LET metadata == scored.node.metadata
    IN  IF "article_id" \in DOMAIN metadata /\ metadata.article_id # <<>>
        THEN {metadata.article_id}
        ELSE IF "parent_id" \in DOMAIN metadata /\ metadata.parent_id # <<>>
        THEN {metadata.parent_id}
        ELSE {}

CarriesNoId(scored) == CarriedId(scored) = {}

\* C26: ArticleDedupPostprocessor preserves only the highest-scoring chunk of
\* each article: for every input node list, in any order, the output holds
\* exactly one node per article id (article_id, else parent_id) present in
\* the input, that node has the highest score among the input nodes with
\* that id, and the nodes that carry no id are all kept.
DedupKeepsTheHighestScoring ==
    pc = "done" =>
        /\ \A a \in UNION { CarriedId(nodes[i]) : i \in 1..Len(nodes) } :
              /\ Cardinality({j \in 1..Len(unique_nodes) : CarriedId(unique_nodes[j]) = {a}}) = 1
              /\ \A j \in 1..Len(unique_nodes) : \A i \in 1..Len(nodes) :
                    CarriedId(unique_nodes[j]) = {a} /\ CarriedId(nodes[i]) = {a}
                        => unique_nodes[j].score >= nodes[i].score
        /\ \A j \in 1..Len(unique_nodes) : \E i \in 1..Len(nodes) : unique_nodes[j] = nodes[i]
        /\ SelectSeq(unique_nodes, CarriesNoId) = SelectSeq(nodes, CarriesNoId)

---------------------------------------------------------------------------
\* something other than whitespace stands before position j on the line of j
MidLine(text, j) ==
    \E i \in 1..(j - 1) : ~Blank(text[i]) /\ \A k \in i..(j - 1) : text[k] # "NL"

\* position j follows the numbered marker that opens its line, with nothing
\* but whitespace in between: it is the start of that paragraph's text
OpensParagraph(text, j) ==
    \E p \in MarkerStarts("numeric", text) :
        \E close \in p..(j - 1) :
            /\ text[close] = ")"
            /\ \A i \in p..(close - 1) : text[i] # ")"
            /\ \A i \in (close + 1)..(j - 1) : Blank(text[i])

\* a "(n)" begins at j in the middle of a line
MidLineParenNumber(text, j) == ParenNumberAt(text, j) /\ MidLine(text, j)

\* a run of Chinese numerals that ends in the enumeration comma begins at j
\* in the middle of a line
MidLineEnumerator(text, j) ==
    /\ EnumeratorAt(text, j)
    /\ MidLine(text, j)
    /\ ~OpensParagraph(text, j)

\* the enumeration comma at position i closes an enumerator in the middle of
\* a line
ClosesMidLineEnumerator(text, i) ==
    /\ text[i] = "dun"
    /\ \E j \in 1..(i - 1) :
          /\ MidLineEnumerator(text, j)
          /\ \A k \in j..(i - 1) : text[k] # "dun"

\* the text with every "(n)" and every enumerator that stands in the middle
\* of a line made unreadable as a marker: its "(" or its comma is an "x"
WithoutMidLineMarkers(text) ==
    [i \in 1..Len(text) |->
        IF MidLineParenNumber(text, i) \/ ClosesMidLineEnumerator(text, i) THEN "x" ELSE text[i]]

\* C27: a marker starts a new chunk only at the start of the text or after a
\* newline (and whitespace): a "(n)" or an enumerator in the middle of a line
\* never splits the text and changes neither the number of chunks nor their
\* addresses nor their strategy - the chunks are those of the text in which
\* these occurrences are no markers at all.
MidLineMarkersNeverSplit ==
    pc = "done" =>
        LET plain == parse_article(strategy,
                        [article EXCEPT !.content = WithoutMidLineMarkers(article.content)])
        IN  /\ Len(chunks) = Len(plain)
            /\ \A i \in 1..Len(chunks) :
                  /\ chunks[i].chunk_id = plain[i].chunk_id
                  /\ chunks[i].parent_id = plain[i].parent_id
                  /\ chunks[i].metadata.hierarchy = plain[i].metadata.hierarchy
                  /\ chunks[i].metadata.split_strategy = plain[i].metadata.split_strategy
                  /\ chunks[i].metadata.is_expanded = plain[i].metadata.is_expanded

\* C27 witness: a Fine call has returned a chunk whose text holds a "(n)" in
\* the middle of a line and a chunk whose text holds an enumerator in the
\* middle of a line
MidLineWitness ==
    /\ pc = "done"
    /\ IsFine
    /\ \E i \in 1..Len(chunks) : \E j \in 1..Len(chunks[i].text) :
          MidLineParenNumber(chunks[i].text, j)
    /\ \E i \in 1..Len(chunks) : \E j \in 1..Len(chunks[i].text) :
          MidLineEnumerator(chunks[i].text, j)

---------------------------------------------------------------------------
\* the paragraph addresses of a chunk list, one per chunk
ParagraphAddresses(cs) == [i \in 1..Len(cs) |-> cs[i].metadata.hierarchy.paragraph]

\* a sequence without the elements that have occurred in it before
RECURSIVE DistinctInOrder(_)
DistinctInOrder(s) ==
    IF Len(s) = 0 THEN <<>>
    ELSE LET front == SubSeq(s, 1, Len(s) - 1)
         IN  IF \E i \in 1..Len(front) : front[i] = s[Len(s)]
             THEN DistinctInOrder(front)
             ELSE Append(DistinctInOrder(front), s[Len(s)])

\* no scope of the content holds a sub-item marker
NoSubItemMarker(content) ==
    \A k \in 1..Len(ScopesOf(content)) : MarkerStarts("sub", ScopesOf(content)[k]) = {}

\* C28: Fine refines Coarse. For every article the paragraph addresses of the
\* Coarse chunks are the distinct paragraph addresses of the Fine chunks, in
\* order; and for an article whose content has no sub-item marker the two
\* policies return chunk lists that agree on chunk_id, text, split_strategy,
\* is_expanded, hierarchy.paragraph and citation_title.
FineRefinesCoarse ==
    pc = "done" =>
        LET coarse == IF IsFine THEN _split_coarse(article) ELSE chunks
            fine == IF IsFine THEN chunks ELSE _split_fine(article)
        IN  /\ ParagraphAddresses(coarse) = DistinctInOrder(ParagraphAddresses(fine))
            /\ NoSubItemMarker(article.content) =>
                  /\ Len(coarse) = Len(fine)
                  /\ \A i \in 1..Len(coarse) :
                        /\ coarse[i].chunk_id = fine[i].chunk_id
                        /\ coarse[i].text = fine[i].text
                        /\ coarse[i].metadata.split_strategy = fine[i].metadata.split_strategy
                        /\ coarse[i].metadata.is_expanded = fine[i].metadata.is_expanded
                        /\ coarse[i].metadata.hierarchy.paragraph = fine[i].metadata.hierarchy.paragraph
                        /\ coarse[i].metadata.citation_title = fine[i].metadata.citation_title

---------------------------------------------------------------------------
\* C29: the numeral formatter is injective on its domain: for m and n in
\* 0..999 with m different from n the two numerals differ, and no numeral is
\* the empty string, so two different article, paragraph or subparagraph
\* numbers never give the same citation part.
NumeralIsInjective ==
    (pc = "done" /\ n \in 0..MaxNumeral) =>
        /\ numeral # <<>>
        /\ \A m \in 0..MaxNumeral : m # n => _convert_to_chinese_numeral(m) # numeral

\* C29 witness: the formatter has returned the numeral of a number whose
\* tens place is empty, beside which stand numbers with the same digits
InjectiveWitness ==
    /\ pc = "done"
    /\ n = 101
    /\ numeral = <<"yi", "bai", "ling", "yi">>

---------------------------------------------------------------------------
\* C30: citation formatting is total over article strings: for every
\* non-empty article_no, also one that holds "-" without being of the form
\* digits-digits (a part that is no number, an empty part, more than one
\* "-"), the formatter returns a citation, falling back to the verbatim
\* "di{article}tiao", and the call does not raise.
CitationIsTotal ==
    pc # "ready" =>
        /\ pc = "done"
        /\ citation # Raised
        /\ (Hyphens(hier.article) # {} /\ ~IsAmendmentNumber(hier.article)) =>
              CitationOpensWith(<<"di">> \o hier.article \o <<"tiao">>)

====
